---- MODULE Spec2Model ----
(***************************************************************************)
(* wallcrop: the selection model (src/wallcrop/_selection.py) and the      *)
(* canvas widget that observes it (src/wallcrop/_selection_widget.py).     *)
(*                                                                         *)
(* Numbers.  The code computes with floats; the model computes with exact  *)
(* fixed-point integers in units of 1/2000, so that every constant of      *)
(* _selection.py (0.75, 0.1, 0.01, 0.001) and every half of a zoom delta   *)
(* (anchor "center") is an integer.  Canvas coordinates are pixels; halves *)
(* of pixels (the wallpaper offset) are kept doubled.  An infinite float is *)
(* a number beyond every finite one of the model (Infinity); a NaN is not   *)
(* a number of the model: the variable nan names the fields that hold one,  *)
(* and zoom and position then keep the last number the field held.         *)
(***************************************************************************)
EXTENDS Integers, Sequences, FiniteSets, TLC

VARIABLES
    zoom,                       \* Selection.zoom
    position,                   \* Selection.position, <<x, y>>
    aspect_ratio,               \* Selection._aspect_ratio
    last,                       \* history: the last event and the state it found
    calls,                      \* history: number of input events so far
    canvas_size,                \* SelectionWidget._canvas_size, <<w, h>>
    canvas_wallpaper_size,      \* SelectionWidget._canvas_wallpaper_size
    canvas_wallpaper_position2, \* 2 * SelectionWidget._canvas_wallpaper_position
    wallpaper_size,             \* SelectionWidget._wallpaper_size
    redraw_scheduled,           \* SelectionWidget._redraw_scheduled
    resize_scheduled,           \* SelectionWidget._resize_scheduled
    show_monitor_labels,        \* SelectionWidget._show_monitor_labels
    show_unselected_area,       \* SelectionWidget._show_unselected_area
    timers,                     \* number of self.after(...) callbacks not yet run
    monitors,                   \* SelectionWidget._workstation.monitors
    drawn,                      \* the monitor rectangles of the last _redraw
    dirty,                      \* history: a selection change not yet drawn
    nan,                        \* which of zoom, position x, position y hold NaN
    mouse_moving,               \* SelectionWidget._mouse_moving
    mouse_zooming,              \* SelectionWidget._mouse_zooming
    mouse_zooming_anchor,       \* SelectionWidget._mouse_zooming_anchor, <<east, south>>
    mouse_last_coords,          \* SelectionWidget._mouse_last_coords
    window                      \* a Window (src/wallcrop/_window.py), or its failed construction

selVars == <<zoom, position>>
geomVars == <<canvas_size, canvas_wallpaper_size, canvas_wallpaper_position2>>
showVars == <<show_monitor_labels, show_unselected_area>>
schedVars == <<redraw_scheduled, timers>>
configVars == <<aspect_ratio, wallpaper_size, monitors>>
widgetVars == <<geomVars, schedVars, resize_scheduled, showVars, drawn, dirty>>
mouseVars == <<mouse_moving, mouse_zooming, mouse_zooming_anchor, mouse_last_coords>>
vars == <<selVars, nan, widgetVars, mouseVars, configVars, window, last, calls>>

---------------------------------------------------------------------------
(* Units and the constants of _selection.py *)

\* 1.0 in model units
One == 2000
MOVE_SPEED == 20
MOVE_SPEED_PRECISE == 2
ZOOM_DEFAULT == 1500
ZOOM_MIN == 200
ZOOM_SPEED == 20
ZOOM_SPEED_PRECISE == 2

\* T_ZOOM_ANCHOR
Anchors == {"center", "nw", "ne", "sw", "se"}

---------------------------------------------------------------------------
(* Bounds of the model: the inputs the environment may choose *)

\* number of input events (calls on the Selection, widget events) in a run
MaxCalls == 3

\* the aspect ratios a Selection is constructed with
AspectRatios == {1, 2}

\* 10.0, the overshooting delta
Far == 10 * One
\* 0.125, the grid of the ordinary deltas
Step == One \div 8

ZoomDeltas == {-Far, -Step, Step}
MoveDeltas == {<<Step, Step>>, <<-Step, 0>>, <<0, -Far>>}
Positions == {<<0, 0>>, <<2 * Step, Step>>, <<-Step, 3 * One>>}
\* set_zoom: the target zoom and the anchor
SetZooms == {0, One \div 2, 2 * One} \X {"center", "ne", "sw"}
\* zoom_increase, zoom_decrease: precise and the anchor
ZoomSteps == BOOLEAN \X {"center", "nw"}

---------------------------------------------------------------------------
(* numpy helpers *)

Max(a, b) == IF a >= b THEN a ELSE b
Min(a, b) == IF a <= b THEN a ELSE b

\* np.clip(v, lo, hi) = minimum(maximum(v, lo), hi)
Clip(v, lo, hi) == Min(Max(v, lo), hi)

\* np.clip on a 2-vector with scalar limits
Clip2(p, lo, hi) == <<Clip(p[1], lo, hi), Clip(p[2], lo, hi)>>

Add2(p, q) == <<p[1] + q[1], p[2] + q[2]>>

---------------------------------------------------------------------------
(* Selection: the methods as functions on the object's state.              *)
(* s = [zoom, position, raw, seen]: raw is the state _onchange found       *)
(* before clamping, seen the states the change handlers were called in.    *)

Sel(z, p) == [zoom |-> z, position |-> p, raw |-> <<z, p>>, seen |-> <<>>]

\* Selection.__init__ leaving the default position at the origin
SelInitAtOrigin == Sel(ZOOM_DEFAULT, <<0, 0>>)

\* Selection.__init__ with the default zoom and no position
SelInit == Sel(ZOOM_DEFAULT, <<(One - ZOOM_DEFAULT) \div 2, (One - ZOOM_DEFAULT) \div 2>>)

\* an argument for the position parameter of Selection.__init__: None, or
\* the 2-vector value as a numpy array or as a tuple
PositionArg(kind, value) == [kind |-> kind, value |-> value]

\* bool(position) in "position if position else ...": None is false, a
\* non-empty tuple is true, and the truth value of an array of two elements is
\* ambiguous, which raises ValueError
Truth(arg) ==
    CASE arg.kind = "none" -> "false"
      [] arg.kind = "tuple" -> "true"
      [] OTHER -> "raises"

\* Selection.__init__(aspect_ratio, zoom, position): the fields it assigns.
\* zoom is assigned first; when the test of the position raises, position is
\* never assigned (<<>>) and no Selection is returned
SelNew(z, arg) ==
    LET t == Truth(arg)
    IN  [raised |-> t = "raises",
         zoom |-> z,
         position |-> IF t = "raises" THEN <<>>
                      ELSE IF t = "true" THEN arg.value
                      ELSE <<(One - z) \div 2, (One - z) \div 2>>]

\* _onchange clamping the position against the zoom it has not clamped yet
OnchangePositionFirst(s) ==
    LET p == Clip2(s.position, 0, One - s.zoom)
        z == Clip(s.zoom, ZOOM_MIN, One)
    IN  [zoom |-> z, position |-> p, raw |-> <<s.zoom, s.position>>,
         seen |-> Append(s.seen, <<z, p>>)]

\* _onchange without the floor of the zoom
OnchangeNoFloor(s) ==
    LET z == Min(s.zoom, One)
        p == Clip2(s.position, 0, One - z)
    IN  [zoom |-> z, position |-> p, raw |-> <<s.zoom, s.position>>,
         seen |-> Append(s.seen, <<z, p>>)]

\* _onchange calling the handlers only when the clamped state differs
OnchangeDeduplicated(s) ==
    LET z == Clip(s.zoom, ZOOM_MIN, One)
        p == Clip2(s.position, 0, One - z)
    IN  [zoom |-> z, position |-> p, raw |-> <<s.zoom, s.position>>,
         seen |-> IF <<z, p>> = s.raw THEN s.seen ELSE Append(s.seen, <<z, p>>)]

\* _onchange clamping the position from above only
OnchangeUpperOnly(s) ==
    LET z == Clip(s.zoom, ZOOM_MIN, One)
        p == <<Min(s.position[1], One - z), Min(s.position[2], One - z)>>
    IN  [zoom |-> z, position |-> p, raw |-> <<s.zoom, s.position>>,
         seen |-> Append(s.seen, <<z, p>>)]

\* _onchange calling the handlers before it clamps
OnchangeNotifyingFirst(s) ==
    LET z == Clip(s.zoom, ZOOM_MIN, One)
        p == Clip2(s.position, 0, One - z)
    IN  [zoom |-> z, position |-> p, raw |-> <<s.zoom, s.position>>,
         seen |-> Append(s.seen, <<s.zoom, s.position>>)]

\* Selection._onchange: clamp zoom, clamp position against it, call the handlers
Onchange(s) ==
    LET z == Clip(s.zoom, ZOOM_MIN, One)
        p == Clip2(s.position, 0, One - z)
    IN  [zoom |-> z, position |-> p, raw |-> <<s.zoom, s.position>>,
         seen |-> Append(s.seen, <<z, p>>)]

\* Selection.set_position
SelSetPosition(s, p) == Onchange([s EXCEPT !.position = p])

\* move_delta scaling both components
ScaledDeltaBothAxes(delta, a, ignore_aspect_ratio) ==
    IF ignore_aspect_ratio THEN delta ELSE <<delta[1] * a, delta[2] * a>>

\* the delta move_delta adds: delta[1] *= aspect_ratio unless told not to
ScaledDelta(delta, a, ignore_aspect_ratio) ==
    IF ignore_aspect_ratio THEN delta ELSE <<delta[1], delta[2] * a>>

\* the caller's delta array when move_delta returns: delta[1] *= aspect_ratio
\* is done in place, on the array the caller passed
CallerDelta(delta, a, ignore_aspect_ratio) == ScaledDelta(delta, a, ignore_aspect_ratio)

\* Selection.move_delta
SelMoveDelta(s, a, delta, ignore_aspect_ratio) ==
    Onchange([s EXCEPT !.position = Add2(@, ScaledDelta(delta, a, ignore_aspect_ratio))])

\* 2 * anchor_position of zoom_delta
AnchorPosition2(anchor) ==
    CASE anchor = "nw" -> <<0, 0>>
      [] anchor = "ne" -> <<2, 0>>
      [] anchor = "sw" -> <<0, 2>>
      [] anchor = "se" -> <<2, 2>>
      [] OTHER -> <<1, 1>>

\* the shift that would hold the anchor's own corner: -delta * anchor_position
ZoomShiftHoldingAnchor(delta, anchor) ==
    LET a2 == AnchorPosition2(anchor)
    IN  <<(-delta * a2[1]) \div 2, (-delta * a2[2]) \div 2>>

\* -delta * (1.0 - anchor_position)
ZoomShift(delta, anchor) ==
    LET a2 == AnchorPosition2(anchor)
    IN  <<(-delta * (2 - a2[1])) \div 2, (-delta * (2 - a2[2])) \div 2>>

\* zoom_delta running _onchange itself before it delegates to move_delta
SelZoomDeltaNotifying(s, a, delta, anchor) ==
    SelMoveDelta(Onchange([s EXCEPT !.zoom = @ + delta]), a, ZoomShift(delta, anchor), TRUE)

\* zoom_delta leaving the aspect-ratio scaling of move_delta on
SelZoomDeltaAspectScaled(s, a, delta, anchor) ==
    SelMoveDelta([s EXCEPT !.zoom = @ + delta], a, ZoomShift(delta, anchor), FALSE)

\* Selection.zoom_delta
SelZoomDelta(s, a, delta, anchor) ==
    SelMoveDelta([s EXCEPT !.zoom = @ + delta], a, ZoomShift(delta, anchor), TRUE)

\* Selection.set_zoom
SelSetZoom(s, a, z, anchor) == SelZoomDelta(s, a, z - s.zoom, anchor)

MoveSpeed(precise) == IF precise THEN MOVE_SPEED_PRECISE ELSE MOVE_SPEED
ZoomSpeed(precise) == IF precise THEN ZOOM_SPEED_PRECISE ELSE ZOOM_SPEED

\* move_up passing its step on without the aspect-ratio scaling
SelMoveUpUnscaled(s, a, precise) == SelMoveDelta(s, a, <<0, -MoveSpeed(precise)>>, TRUE)

SelMoveLeft(s, a, precise) == SelMoveDelta(s, a, <<-MoveSpeed(precise), 0>>, FALSE)
SelMoveRight(s, a, precise) == SelMoveDelta(s, a, <<MoveSpeed(precise), 0>>, FALSE)
SelMoveUp(s, a, precise) == SelMoveDelta(s, a, <<0, -MoveSpeed(precise)>>, FALSE)
SelMoveDown(s, a, precise) == SelMoveDelta(s, a, <<0, MoveSpeed(precise)>>, FALSE)
SelZoomIncrease(s, a, precise, anchor) == SelZoomDelta(s, a, ZoomSpeed(precise), anchor)
SelZoomDecrease(s, a, precise, anchor) == SelZoomDelta(s, a, -ZoomSpeed(precise), anchor)

---------------------------------------------------------------------------
(* SelectionWidget: scheduling, as functions on the scheduling state       *)
(* w = [redraw_scheduled, timers]                                          *)

PADDING == 20

\* SelectionWidget.schedule_redraw
ScheduleRedraw(w, force) ==
    IF ~w.redraw_scheduled \/ force
    THEN [redraw_scheduled |-> TRUE, timers |-> w.timers + 1]
    ELSE w

\* the loop of _onchange over the registered handlers; the widget registered
\* schedule_redraw in its constructor, and a call reaches _onchange n times
RECURSIVE CallHandlers(_, _)
CallHandlers(w, n) ==
    IF n = 0 THEN w ELSE CallHandlers(ScheduleRedraw(w, FALSE), n - 1)

Sched == [redraw_scheduled |-> redraw_scheduled, timers |-> timers]

\* int(): truncation towards zero of n / d, d > 0
Trunc(n, d) == IF n >= 0 THEN n \div d ELSE -((-n) \div d)

\* the letter-boxing without the test against the canvas height
LetterBoxWidthOnly(c, wp) ==
    <<c[1] - 2 * PADDING, Trunc((c[1] - 2 * PADDING) * wp[2], wp[1])>>

\* the letter-boxing of _schedule_resize: the wallpaper's size on a canvas of
\* size c, for a wallpaper of size wp (aspect ratio wp[1] / wp[2])
LetterBox(c, wp) ==
    LET w0 == c[1] - 2 * PADDING
        h0 == Trunc(w0 * wp[2], wp[1])
    IN  IF h0 > c[2] - 2 * PADDING
        THEN <<Trunc((c[2] - 2 * PADDING) * wp[1], wp[2]), c[2] - 2 * PADDING>>
        ELSE <<w0, h0>>

\* np.any(self._canvas_size <= 1.0)
Degenerate(c) == c[1] <= 1 \/ c[2] <= 1

\* Image.resize and Image.new raise ValueError unless both sides are >= 1
ResizeRaises(size) == size[1] < 1 \/ size[2] < 1

---------------------------------------------------------------------------
(* SelectionWidget: the monitors.  A monitor is [position, size], the      *)
(* fields of MonitorSettings the geometry uses.  A drawn rectangle keeps   *)
(* its fractions unreduced: num / den per axis.                            *)

Monitor(p, s) == [position |-> p, size |-> s]

RECURSIVE CoordMin(_)
\* self._workstation_coord_min of SelectionWidget.__init__, for a non-empty list
CoordMin(ms) ==
    IF Len(ms) = 1 THEN ms[1].position
    ELSE LET r == CoordMin(Tail(ms))
         IN  <<Min(ms[1].position[1], r[1]), Min(ms[1].position[2], r[2])>>

RECURSIVE CoordMaxOfPositions(_)
\* the maximum over the monitors' positions, their sizes left out
CoordMaxOfPositions(ms) ==
    IF Len(ms) = 1 THEN ms[1].position
    ELSE LET r == CoordMaxOfPositions(Tail(ms))
         IN  <<Max(ms[1].position[1], r[1]), Max(ms[1].position[2], r[2])>>

RECURSIVE CoordMax(_)
\* self._workstation_coord_max of SelectionWidget.__init__, for a non-empty list
CoordMax(ms) ==
    IF Len(ms) = 1 THEN Add2(ms[1].position, ms[1].size)
    ELSE LET r == CoordMax(Tail(ms))
             e == Add2(ms[1].position, ms[1].size)
         IN  <<Max(e[1], r[1]), Max(e[2], r[2])>>

\* what a position or size is divided by in _draw_monitors_on_selection
FootprintDivisor(cmin, cmax) == cmax

\* monitor_position_on_selection and monitor_size_on_selection
Footprint(m, cmin, cmax, z) ==
    [pos |-> <<(m.position[1] - cmin[1]) * z, (m.position[2] - cmin[2]) * z>>,
     size |-> <<m.size[1] * z, m.size[2] * z>>,
     den |-> FootprintDivisor(cmin, cmax)]

\* the loop of _draw_monitors_on_selection
DrawMonitors(ms, z) ==
    [i \in 1 .. Len(ms) |-> Footprint(ms[i], CoordMin(ms), CoordMax(ms), z)]

---------------------------------------------------------------------------
(* Events.  Each action is a whole handler; last records the event and the *)
(* state it found.                                                         *)

Cur == Sel(zoom, position)
Geom == <<canvas_size, canvas_wallpaper_size, canvas_wallpaper_position2>>

\* the pointer state of the widget
Mouse ==
    [moving |-> mouse_moving, zooming |-> mouse_zooming,
     anchor |-> mouse_zooming_anchor, last_coords |-> mouse_last_coords]

Event(op, args, raw, seen) ==
    [op |-> op, args |-> args, pre |-> <<zoom, position>>, raw |-> raw, seen |-> seen,
     geom |-> Geom, sched |-> Sched, resize |-> resize_scheduled,
     mouse |-> Mouse, nan |-> nan,
     run |-> IF last.op = op /\ last.args = args THEN last.run + 1 ELSE 1]

Counted ==
    /\ calls < MaxCalls
    /\ calls' = calls + 1

\* NaN through a call: a sum or a clip of a NaN is a NaN, a clip against a
\* limit that is a NaN (1 - zoom) is a NaN; set_position replaces the position
NanAfterCall(op) ==
    IF "zoom" \in nan THEN {"zoom", "x", "y"}
    ELSE IF op = "set_position" THEN {}
    ELSE nan

\* a call on the Selection: the mutation, the clamping of _onchange and the
\* handlers it calls
Call(op, args, s) ==
    LET w == CallHandlers(Sched, Len(s.seen))
    IN  /\ Counted
        /\ zoom' = s.zoom
        /\ position' = s.position
        /\ last' = Event(op, args, s.raw, s.seen)
        /\ redraw_scheduled' = w.redraw_scheduled
        /\ timers' = w.timers
        /\ dirty' = TRUE
        /\ nan' = NanAfterCall(op)
        /\ UNCHANGED <<configVars, geomVars, resize_scheduled, showVars, drawn,
                       mouseVars, window>>

SetPosition(p) ==
    Call("set_position", <<p>>, SelSetPosition(Cur, p))

\* move_delta(delta, ignore_aspect_ratio) on an array that was created holding
\* origin; the event records the array as the call found it, the flag, the
\* array as the call left it and origin
MoveDeltaOf(delta, ignore_aspect_ratio, origin) ==
    Call("move_delta",
         <<delta, ignore_aspect_ratio,
           CallerDelta(delta, aspect_ratio, ignore_aspect_ratio), origin>>,
         SelMoveDelta(Cur, aspect_ratio, delta, ignore_aspect_ratio))

\* move_delta on a new array
MoveDelta(delta, ignore_aspect_ratio) == MoveDeltaOf(delta, ignore_aspect_ratio, delta)

\* move_delta called again with the array and the flag of the call before
MoveDeltaAgain ==
    /\ last.op = "move_delta"
    /\ MoveDeltaOf(last.args[3], last.args[2], last.args[4])

SetZoom(z, anchor) ==
    Call("set_zoom", <<z, anchor>>, SelSetZoom(Cur, aspect_ratio, z, anchor))

ZoomDelta(delta, anchor) ==
    Call("zoom_delta", <<delta, anchor>>, SelZoomDelta(Cur, aspect_ratio, delta, anchor))

MoveLeft(precise) ==
    Call("move_left", <<precise>>, SelMoveLeft(Cur, aspect_ratio, precise))

MoveRight(precise) ==
    Call("move_right", <<precise>>, SelMoveRight(Cur, aspect_ratio, precise))

MoveUp(precise) ==
    Call("move_up", <<precise>>, SelMoveUp(Cur, aspect_ratio, precise))

MoveDown(precise) ==
    Call("move_down", <<precise>>, SelMoveDown(Cur, aspect_ratio, precise))

ZoomIncrease(precise, anchor) ==
    Call("zoom_increase", <<precise, anchor>>,
         SelZoomIncrease(Cur, aspect_ratio, precise, anchor))

ZoomDecrease(precise, anchor) ==
    Call("zoom_decrease", <<precise, anchor>>,
         SelZoomDecrease(Cur, aspect_ratio, precise, anchor))

\* <Configure> -> _schedule_resize, with (winfo_width(), winfo_height()) = c;
\* self._canvas_size is assigned before the guard
ScheduleResize(c) ==
    /\ Counted
    /\ last' = Event("schedule_resize", c, <<>>, <<>>)
    /\ canvas_size' = c
    /\ IF Degenerate(c)
       THEN UNCHANGED <<canvas_wallpaper_size, resize_scheduled, schedVars>>
       ELSE LET w == ScheduleRedraw(Sched, FALSE)
            IN  /\ canvas_wallpaper_size' = LetterBox(c, wallpaper_size)
                /\ resize_scheduled' = TRUE
                /\ redraw_scheduled' = w.redraw_scheduled
                /\ timers' = w.timers
    /\ UNCHANGED <<selVars, nan, configVars, canvas_wallpaper_position2, showVars,
                   drawn, dirty, mouseVars, window>>

SetShowMonitorLabels(value) ==
    LET w == ScheduleRedraw(Sched, FALSE)
    IN  /\ Counted
        /\ last' = Event("set_show_monitor_labels", value, <<>>, <<>>)
        /\ show_monitor_labels' = value
        /\ redraw_scheduled' = w.redraw_scheduled
        /\ timers' = w.timers
        /\ UNCHANGED <<selVars, nan, configVars, geomVars, resize_scheduled,
                       show_unselected_area, drawn, dirty, mouseVars, window>>

SetShowUnselectedArea(value) ==
    LET w == ScheduleRedraw(Sched, FALSE)
    IN  /\ Counted
        /\ last' = Event("set_show_unselected_area", value, <<>>, <<>>)
        /\ show_unselected_area' = value
        /\ redraw_scheduled' = w.redraw_scheduled
        /\ timers' = w.timers
        /\ UNCHANGED <<selVars, nan, configVars, geomVars, resize_scheduled,
                       show_monitor_labels, drawn, dirty, mouseVars, window>>

\* a callback registered with self.after runs: _redraw.  When a resize is
\* scheduled _resize_images runs first; Image.resize raises for a size below
\* 1x1, Tk reports the exception and the rest of _redraw does not run.
Redraw ==
    /\ timers > 0
    /\ timers' = timers - 1
    /\ IF resize_scheduled /\ ResizeRaises(canvas_wallpaper_size)
       THEN /\ last' = Event("redraw_raised", <<>>, <<>>, <<>>)
            /\ UNCHANGED <<geomVars, resize_scheduled, redraw_scheduled, drawn, dirty>>
       ELSE /\ last' = Event("redraw", <<>>, <<>>, <<>>)
            /\ canvas_wallpaper_position2' =
                   IF resize_scheduled
                   THEN <<canvas_size[1] - canvas_wallpaper_size[1],
                          canvas_size[2] - canvas_wallpaper_size[2]>>
                   ELSE canvas_wallpaper_position2
            /\ resize_scheduled' = FALSE
            /\ drawn' = DrawMonitors(monitors, zoom)
            /\ redraw_scheduled' = FALSE
            /\ dirty' = FALSE
            /\ UNCHANGED <<canvas_size, canvas_wallpaper_size>>
    /\ UNCHANGED <<selVars, nan, configVars, showVars, calls, mouseVars, window>>

---------------------------------------------------------------------------
(* SelectionWidget: the pointer.  Pointer positions are canvas pixels.  The *)
(* quotients of the handlers are exact for the inputs of the model: the    *)
(* pointer moves between points whose distances the display size divides.  *)

\* a float beyond every finite number of the model: inf
Infinity == 100000 * One

Abs(n) == IF n >= 0 THEN n ELSE -n

\* n / d as numpy divides floats: x / 0 is inf or -inf, and 0 / 0 is NaN
\* (Ratio then keeps 0 and RatioIsNaN tells)
Ratio(n, d) ==
    IF d = 0 THEN (IF n > 0 THEN Infinity ELSE IF n < 0 THEN -Infinity ELSE 0)
    ELSE IF d > 0 THEN (n * One) \div d
    ELSE ((-n) * One) \div (-d)

RatioIsNaN(n, d) == d = 0 /\ n = 0

\* np.linalg.norm of a 2-vector: the root lies between the longer side and
\* the sum of the sides
Norm(v) ==
    CHOOSE n \in Max(Abs(v[1]), Abs(v[2])) .. (Abs(v[1]) + Abs(v[2])) :
        n * n = v[1] * v[1] + v[2] * v[2]

\* the comparison of _start_mouse_zooming with the corner of the selection
\* in place of its centre
PointerBeyondCorner(pt, k, z, p, size, pos2, n) ==
    /\ "zoom" \notin n
    /\ (IF k = 1 THEN "x" ELSE "y") \notin n
    /\ 2 * One * pt[k] > 2 * p[k] * size[k] + One * pos2[k]

\* pt > canvas_selection_center on axis k, for the selection (z, p), the
\* wallpaper's size and doubled position on the canvas; a comparison with a
\* NaN is false
PointerBeyondCentre(pt, k, z, p, size, pos2, n) ==
    /\ "zoom" \notin n
    /\ (IF k = 1 THEN "x" ELSE "y") \notin n
    /\ 2 * One * pt[k] > (2 * p[k] + z) * size[k] + One * pos2[k]

\* the zoom_anchor _handle_mouse_motion passes for self._mouse_zooming_anchor
AnchorName(anchor) ==
    CASE anchor = <<FALSE, FALSE>> -> "nw"
      [] anchor = <<TRUE, FALSE>> -> "ne"
      [] anchor = <<FALSE, TRUE>> -> "sw"
      [] anchor = <<TRUE, TRUE>> -> "se"
      [] OTHER -> "center"

\* norm(zoom_corner - q) > norm(zoom_corner - p) for zoom_corner =
\* (anchor - 0.5) * 1e9.  With c = 5e8 and s[k] = +1 or -1 as anchor[k], the
\* difference of the squares is |q|^2 - |p|^2 - 2c * (s . (q - p)), and
\* |q|^2 - |p|^2 is below 2c for every pointer on a canvas.
FartherFromCorner(anchor, p, q) ==
    LET s(k) == IF anchor[k] THEN 1 ELSE -1
        along == s(1) * (q[1] - p[1]) + s(2) * (q[2] - p[2])
    IN  IF along # 0 THEN along < 0
        ELSE q[1] * q[1] + q[2] * q[2] > p[1] * p[1] + p[2] * p[2]

\* zoom_direction
ZoomDirection(anchor, p, q) == 1 - 2 * (IF FartherFromCorner(anchor, p, q) THEN 1 ELSE 0)

\* the pan of _handle_mouse_motion: move_delta((q - p) / size,
\* ignore_aspect_ratio=True) on the Selection s; n are its NaN fields
MotionPan(s, n, a, p, q, size) ==
    LET delta == <<Ratio(q[1] - p[1], size[1]), Ratio(q[2] - p[2], size[2])>>
        fresh == (IF RatioIsNaN(q[1] - p[1], size[1]) THEN {"x"} ELSE {})
                 \cup (IF RatioIsNaN(q[2] - p[2], size[2]) THEN {"y"} ELSE {})
    IN  [sel |-> SelMoveDelta(s, a, delta, TRUE),
         nan |-> IF "zoom" \in n THEN {"zoom", "x", "y"} ELSE n \cup fresh,
         call |-> <<"move_delta", delta, TRUE>>]

\* the zoom of _handle_mouse_motion: zoom_delta(zoom_direction * zoom_delta,
\* anchor=zoom_anchor).  An infinite delta times the 0 of (1 - anchor_position)
\* is a NaN shift on that axis.
MotionZoom(s, n, a, anchor, p, q, size) ==
    LET num == Norm(<<q[1] - p[1], q[2] - p[2]>>)
        den == Norm(size)
        delta == ZoomDirection(anchor, p, q) * Ratio(num, den)
        fresh == IF RatioIsNaN(num, den) THEN {"zoom", "x", "y"}
                 ELSE IF den = 0
                 THEN (IF anchor[1] THEN {"x"} ELSE {}) \cup (IF anchor[2] THEN {"y"} ELSE {})
                 ELSE {}
    IN  [sel |-> SelZoomDelta(s, a, delta, AnchorName(anchor)),
         nan |-> IF "zoom" \in n \cup fresh THEN {"zoom", "x", "y"} ELSE n \cup fresh,
         call |-> <<"zoom_delta", delta, AnchorName(anchor)>>]

\* _handle_mouse_motion panning whether or not button 1 is held
MotionAlwaysPanning(pt) ==
    LET pan == MotionPan(Cur, nan, aspect_ratio, mouse_last_coords, pt,
                         canvas_wallpaper_size)
        zoomed == IF mouse_zooming
                  THEN MotionZoom(pan.sel, pan.nan, aspect_ratio, mouse_zooming_anchor,
                                  mouse_last_coords, pt, canvas_wallpaper_size)
                  ELSE [pan EXCEPT !.call = <<>>]
    IN  [sel |-> zoomed.sel, nan |-> zoomed.nan, pan |-> pan.call, zoom |-> zoomed.call,
         pan_sel |-> pan.sel]

\* _handle_mouse_motion on the Selection: the pan if a pan is on, then the
\* zoom if a zoom is on
Motion(pt) ==
    LET idle == [sel |-> Cur, nan |-> nan, call |-> <<>>]
        pan == IF mouse_moving
               THEN MotionPan(Cur, nan, aspect_ratio, mouse_last_coords, pt,
                              canvas_wallpaper_size)
               ELSE idle
        zoomed == IF mouse_zooming
                  THEN MotionZoom(pan.sel, pan.nan, aspect_ratio, mouse_zooming_anchor,
                                  mouse_last_coords, pt, canvas_wallpaper_size)
                  ELSE [pan EXCEPT !.call = <<>>]
    IN  [sel |-> zoomed.sel, nan |-> zoomed.nan, pan |-> pan.call, zoom |-> zoomed.call,
         pan_sel |-> pan.sel]

\* <ButtonPress-1> at pt: _start_mouse_moving
StartMouseMoving(pt) ==
    /\ Counted
    /\ last' = Event("start_mouse_moving", [pt |-> pt], <<>>, <<>>)
    /\ mouse_moving' = TRUE
    /\ mouse_last_coords' = pt
    /\ UNCHANGED <<selVars, nan, widgetVars, configVars, window, mouse_zooming,
                   mouse_zooming_anchor>>

\* <ButtonRelease-1>: _stop_mouse_moving
StopMouseMoving ==
    /\ Counted
    /\ last' = Event("stop_mouse_moving", [pt |-> <<>>], <<>>, <<>>)
    /\ mouse_moving' = FALSE
    /\ UNCHANGED <<selVars, nan, widgetVars, configVars, window, mouse_zooming,
                   mouse_zooming_anchor, mouse_last_coords>>

\* <ButtonPress-3> at pt: _start_mouse_zooming
StartMouseZooming(pt) ==
    /\ Counted
    /\ last' = Event("start_mouse_zooming", [pt |-> pt], <<>>, <<>>)
    /\ mouse_zooming' = TRUE
    /\ mouse_last_coords' = pt
    /\ mouse_zooming_anchor' =
           [k \in 1 .. 2 |->
               PointerBeyondCentre(pt, k, zoom, position, canvas_wallpaper_size,
                                   canvas_wallpaper_position2, nan)]
    /\ UNCHANGED <<selVars, nan, widgetVars, configVars, window, mouse_moving>>

\* <ButtonRelease-3>: _stop_mouse_zooming
StopMouseZooming ==
    /\ Counted
    /\ last' = Event("stop_mouse_zooming", [pt |-> <<>>], <<>>, <<>>)
    /\ mouse_zooming' = FALSE
    /\ UNCHANGED <<selVars, nan, widgetVars, configVars, window, mouse_moving,
                   mouse_zooming_anchor, mouse_last_coords>>

\* <Motion> to pt: _handle_mouse_motion.  Each branch taken calls the
\* Selection, whose _onchange calls schedule_redraw, and then schedule_redraw
\* itself.
HandleMouseMotion(pt) ==
    LET m == Motion(pt)
        notified == CallHandlers(Sched, Len(m.sel.seen))
        w == IF mouse_moving \/ mouse_zooming THEN ScheduleRedraw(notified, FALSE)
             ELSE notified
    IN  /\ Counted
        /\ last' = Event("motion", [pt |-> pt, pan |-> m.pan, zoom |-> m.zoom,
                                    pan_sel |-> <<m.pan_sel.zoom, m.pan_sel.position>>],
                         m.sel.raw, m.sel.seen)
        /\ zoom' = m.sel.zoom
        /\ position' = m.sel.position
        /\ nan' = m.nan
        /\ redraw_scheduled' = w.redraw_scheduled
        /\ timers' = w.timers
        /\ dirty' = (dirty \/ mouse_moving \/ mouse_zooming)
        /\ mouse_last_coords' = pt
        /\ UNCHANGED <<configVars, geomVars, resize_scheduled, showVars, drawn,
                       mouse_moving, mouse_zooming, mouse_zooming_anchor, window>>

---------------------------------------------------------------------------
(* Window (src/wallcrop/_window.py): the earlier window class, which keeps *)
(* the selection in its own fields sel_pos and sel_zoom_factor and clamps  *)
(* them in redraw.  window is the object as a record; a construction that  *)
(* raised leaves [raised |-> TRUE].  The root window has a minimum size of *)
(* 800x600, so the canvas redraw resizes to is never degenerate.           *)

SEL_ZOOM_DEFAULT == 1500
SEL_ZOOM_MIN == 200
SEL_ZOOM_SPEED == 20
SEL_MOVE_SPEED == 20
\* 1 / _SEL_PRECISE_FACTOR
SEL_PRECISE_DIVISOR == 10

\* what a user may have typed into a Spinbox when it is committed
EntryTexts == {"0.25", "0.5", "2", "-1", "abc", "", "0,5"}

\* float(text): the value, or ValueError
FloatOf(text) ==
    CASE text = "0.25" -> [ok |-> TRUE, value |-> One \div 4]
      [] text = "0.5" -> [ok |-> TRUE, value |-> One \div 2]
      [] text = "2" -> [ok |-> TRUE, value |-> 2 * One]
      [] text = "-1" -> [ok |-> TRUE, value |-> -One]
      [] OTHER -> [ok |-> FALSE]

\* a Spinbox holding what the user typed
Typed(text) == [text |-> text]

\* a Spinbox showing a number: set(value) shows str(value), redraw shows
\* the value formatted with three decimals
Shown(v, format) == [shown |-> v, format |-> format]

\* Window.__init__ up to the first event of its main loop
WindowInit(ms, wp) ==
    IF ms = <<>>
    THEN [raised |-> TRUE, monitors |-> ms]
    ELSE [raised |-> FALSE, monitors |-> ms, wall_size |-> wp,
          mon_coord_min |-> CoordMin(ms), mon_coord_max |-> CoordMax(ms),
          sel_zoom_factor |-> SEL_ZOOM_DEFAULT,
          sel_pos |-> <<(One - SEL_ZOOM_DEFAULT) \div 2, (One - SEL_ZOOM_DEFAULT) \div 2>>,
          spinbox |-> [x |-> Typed(""), y |-> Typed(""), zoom |-> Typed("")],
          redraw_scheduled |-> FALSE, timers |-> 0,
          last |-> [op |-> "init", text |-> ""]]

\* Window.schedule_redraw
WindowScheduleRedraw(w) ==
    IF ~w.redraw_scheduled
    THEN [w EXCEPT !.redraw_scheduled = TRUE, !.timers = @ + 1]
    ELSE w

\* sel_set_pos_x scheduling a redraw for a rejected entry too
WindowSelSetPosXRedrawing(w, text) ==
    LET f == FloatOf(text)
    IN  IF f.ok
        THEN WindowScheduleRedraw([w EXCEPT !.spinbox.x = Typed(text), !.sel_pos[1] = f.value])
        ELSE WindowScheduleRedraw([w EXCEPT !.spinbox.x = Shown(w.sel_pos[1], "str")])

\* Window.sel_set_pos_x with text in the Spinbox
WindowSelSetPosX(w, text) ==
    LET f == FloatOf(text)
    IN  IF f.ok
        THEN WindowScheduleRedraw([w EXCEPT !.spinbox.x = Typed(text), !.sel_pos[1] = f.value])
        ELSE [w EXCEPT !.spinbox.x = Shown(w.sel_pos[1], "str")]

\* Window.sel_set_pos_y
WindowSelSetPosY(w, text) ==
    LET f == FloatOf(text)
    IN  IF f.ok
        THEN WindowScheduleRedraw([w EXCEPT !.spinbox.y = Typed(text), !.sel_pos[2] = f.value])
        ELSE [w EXCEPT !.spinbox.y = Shown(w.sel_pos[2], "str")]

\* Window.sel_set_zoom_factor
WindowSelSetZoomFactor(w, text) ==
    LET f == FloatOf(text)
    IN  IF f.ok
        THEN WindowScheduleRedraw([w EXCEPT !.spinbox.zoom = Typed(text),
                                            !.sel_zoom_factor = f.value])
        ELSE [w EXCEPT !.spinbox.zoom = Shown(w.sel_zoom_factor, "str")]

\* the handler Window.sel_move(delta) returns; shift is the precise modifier
WindowSelMove(w, delta, shift) ==
    LET d == IF shift THEN <<delta[1] \div SEL_PRECISE_DIVISOR,
                             delta[2] \div SEL_PRECISE_DIVISOR>>
             ELSE delta
    IN  WindowScheduleRedraw(
            [w EXCEPT !.sel_pos = Add2(@, <<d[1], (d[2] * w.wall_size[1]) \div w.wall_size[2]>>)])

\* the handler Window.sel_zoom(delta) returns, anchor (0.5, 0.5)
WindowSelZoom(w, delta, shift) ==
    LET d == IF shift THEN delta \div SEL_PRECISE_DIVISOR ELSE delta
    IN  WindowScheduleRedraw(
            [w EXCEPT !.sel_zoom_factor = @ + d,
                      !.sel_pos = <<@[1] - d \div 2, @[2] - d \div 2>>])

\* Window.redraw: clamp, refresh the three Spinboxes, draw
WindowRedrawn(w) ==
    LET z == Max(SEL_ZOOM_MIN, Min(w.sel_zoom_factor, One))
        p == Clip2(w.sel_pos, 0, One - z)
    IN  [w EXCEPT !.sel_zoom_factor = z, !.sel_pos = p,
                  !.spinbox = [x |-> Shown(p[1], "%.3f"), y |-> Shown(p[2], "%.3f"),
                               zoom |-> Shown(z, "%.3f")],
                  !.redraw_scheduled = FALSE]

\* what the handlers of the Window can change
WindowState(w) ==
    [sel_pos |-> w.sel_pos, sel_zoom_factor |-> w.sel_zoom_factor,
     spinbox |-> w.spinbox, redraw_scheduled |-> w.redraw_scheduled,
     timers |-> w.timers]

\* an event of the Window's main loop that ran the handler giving w
WindowEvent(op, text, w) ==
    /\ ~window.raised
    /\ Counted
    /\ window' = [w EXCEPT !.last = [op |-> op, text |-> text, pre |-> WindowState(window)]]
    /\ UNCHANGED <<selVars, nan, widgetVars, mouseVars, configVars, last>>

SelSetPosX(text) == WindowEvent("sel_set_pos_x", text, WindowSelSetPosX(window, text))
SelSetPosY(text) == WindowEvent("sel_set_pos_y", text, WindowSelSetPosY(window, text))
SelSetZoomFactor(text) ==
    WindowEvent("sel_set_zoom_factor", text, WindowSelSetZoomFactor(window, text))
SelMove(delta, shift) == WindowEvent("sel_move", "", WindowSelMove(window, delta, shift))
SelZoom(delta, shift) == WindowEvent("sel_zoom", "", WindowSelZoom(window, delta, shift))

\* a callback registered with root.after runs: Window.redraw
WindowRedraw ==
    /\ ~window.raised
    /\ window.timers > 0
    /\ window' = [WindowRedrawn(window) EXCEPT
                      !.timers = @ - 1,
                      !.last = [op |-> "redraw", text |-> "", pre |-> WindowState(window)]]
    /\ UNCHANGED <<selVars, nan, widgetVars, mouseVars, configVars, last, calls>>

---------------------------------------------------------------------------
(* Initial states: after Selection.__init__ and SelectionWidget.__init__,  *)
(* whose closing _schedule_resize() finds the unmapped widget 1x1          *)

NoEvent ==
    [op |-> "init", args |-> <<>>, pre |-> <<SelInit.zoom, SelInit.position>>,
     raw |-> <<>>, seen |-> <<>>, geom |-> <<<<1, 1>>, <<1, 1>>, <<0, 0>>>>,
     sched |-> [redraw_scheduled |-> FALSE, timers |-> 0], resize |-> FALSE,
     mouse |-> [moving |-> FALSE, zooming |-> FALSE, anchor |-> <<FALSE, FALSE>>,
                last_coords |-> <<0, 0>>],
     nan |-> {}, run |-> 0]

\* the wallpaper _cli.py opens is 1125x250
WallpaperSizes == {<<1125, 250>>, <<4, 3>>, <<3, 4>>}

\* the workstation of the specification's example: two monitors side by side
TwoMonitors == <<Monitor(<<0, 0>>, <<100, 100>>), Monitor(<<100, 0>>, <<100, 100>>)>>

InitWith(aspects, wallpapers, workstations) ==
    /\ zoom = SelInit.zoom
    /\ position = SelInit.position
    /\ aspect_ratio \in aspects
    /\ last = NoEvent
    /\ calls = 0
    /\ canvas_size = <<1, 1>>
    /\ canvas_wallpaper_size = <<1, 1>>
    /\ canvas_wallpaper_position2 = <<0, 0>>
    /\ wallpaper_size \in wallpapers
    /\ monitors \in workstations
    /\ redraw_scheduled = FALSE
    /\ resize_scheduled = FALSE
    /\ show_monitor_labels = FALSE
    /\ show_unselected_area = TRUE
    /\ timers = 0
    /\ drawn = <<>>
    /\ dirty = FALSE
    /\ nan = {}
    /\ mouse_moving = FALSE
    /\ mouse_zooming = FALSE
    /\ mouse_zooming_anchor = <<FALSE, FALSE>>
    /\ mouse_last_coords = <<0, 0>>
    /\ window = WindowInit(monitors, wallpaper_size)

---------------------------------------------------------------------------
(* Spec: the Selection driven through all of its methods, with the widget  *)
(* registered as its change handler, up to the next run of the redraw      *)
(* timer                                                                   *)

Init == InitWith(AspectRatios, {<<1125, 250>>}, {TwoMonitors})

Next ==
    \/ \E p \in Positions : SetPosition(p)
    \/ \E d \in MoveDeltas, i \in BOOLEAN : MoveDelta(d, i)
    \/ \E za \in SetZooms : SetZoom(za[1], za[2])
    \/ \E d \in ZoomDeltas, a \in Anchors : ZoomDelta(d, a)
    \/ \E precise \in BOOLEAN : MoveLeft(precise)
    \/ \E precise \in BOOLEAN : MoveRight(precise)
    \/ \E precise \in BOOLEAN : MoveUp(precise)
    \/ \E precise \in BOOLEAN : MoveDown(precise)
    \/ \E pa \in ZoomSteps : ZoomIncrease(pa[1], pa[2])
    \/ \E pa \in ZoomSteps : ZoomDecrease(pa[1], pa[2])

Spec == Init /\ [][Next]_vars

---------------------------------------------------------------------------
(* SpecWidget: the widget with its canvas events and its redraw timer, and *)
(* one call of each method of the Selection it observes                    *)

CanvasSizes ==
    {<<0, 0>>, <<1, 1>>, <<1, 600>>, <<30, 30>>, <<800, 600>>, <<200, 600>>,
     <<800, 100>>}

InitWidget == InitWith({2}, WallpaperSizes, {TwoMonitors})

NextWidget ==
    \/ \E c \in CanvasSizes : ScheduleResize(c)
    \/ \E v \in BOOLEAN : SetShowMonitorLabels(v)
    \/ \E v \in BOOLEAN : SetShowUnselectedArea(v)
    \/ Redraw
    \/ SetPosition(<<0, 0>>)
    \/ MoveDelta(<<Step, Step>>, FALSE)
    \/ SetZoom(One \div 2, "center")
    \/ ZoomDelta(-Step, "nw")
    \/ MoveLeft(FALSE)
    \/ MoveRight(TRUE)
    \/ MoveUp(FALSE)
    \/ MoveDown(TRUE)
    \/ ZoomIncrease(FALSE, "center")
    \/ ZoomDecrease(TRUE, "center")

SpecWidget == InitWidget /\ [][NextWidget]_vars

---------------------------------------------------------------------------
(* SpecMonitors: the monitor rectangles the redraw draws, for workstations *)
(* of no to three monitors, at the zooms the Selection takes               *)

MonitorPositions == {<<0, 0>>, <<100, 0>>, <<-50, 50>>, <<200, 100>>}
MonitorSizes == {<<100, 100>>, <<200, 100>>}
Monitors == {Monitor(p, s) : p \in MonitorPositions, s \in MonitorSizes}

\* three monitors for the workstations of three
ThreeMonitors ==
    {Monitor(<<0, 0>>, <<100, 100>>), Monitor(<<-50, 50>>, <<200, 100>>),
     Monitor(<<200, 100>>, <<100, 100>>)}

\* the workstations a settings file may hold: monitors is a list, which may
\* be empty
Workstations ==
    {<<>>} \cup {<<m>> : m \in Monitors} \cup {<<m, n>> : m, n \in Monitors}
    \cup {<<l, m, n>> : l, m, n \in ThreeMonitors}

InitMonitors == InitWith({1}, {<<1125, 250>>}, Workstations)

NextMonitors ==
    \/ Redraw
    \/ ScheduleResize(<<800, 600>>)
    \/ \E z \in {One \div 2, 2 * One} : SetZoom(z, "center")
    \/ ZoomDelta(-Step, "center")
    \/ SetPosition(<<0, 0>>)

SpecMonitors == InitMonitors /\ [][NextMonitors]_vars

---------------------------------------------------------------------------
(* SpecWindow: the Window with its text fields, its keys and its redraw    *)
(* timer                                                                   *)

InitWindow == InitWith({1}, {<<1125, 250>>}, {TwoMonitors})

NextWindow ==
    \/ \E text \in EntryTexts : SelSetPosX(text)
    \/ \E text \in EntryTexts : SelSetPosY(text)
    \/ \E text \in EntryTexts : SelSetZoomFactor(text)
    \/ \E d \in {<<-SEL_MOVE_SPEED, 0>>, <<0, SEL_MOVE_SPEED>>}, shift \in BOOLEAN :
           SelMove(d, shift)
    \/ \E d \in {-SEL_ZOOM_SPEED, SEL_ZOOM_SPEED}, shift \in BOOLEAN : SelZoom(d, shift)
    \/ WindowRedraw

SpecWindow == InitWindow /\ [][NextWindow]_vars

---------------------------------------------------------------------------
(* SpecMouse: the pointer on a mapped widget.  The pointer reaches the      *)
(* widget once it is on the screen: the initial state is the widget after  *)
(* its construction, the <Configure> event of its first layout (840x640)   *)
(* and the redraw that event scheduled; calls counts the events from there *)

MappedCanvas == <<840, 640>>
MouseWallpaper == <<4, 3>>

\* the centre of MappedCanvas, the four corners of a 120x90 rectangle about
\* it: the distances between them are 60-45-75 and 120-90-150
Pointers == {<<420, 320>>, <<360, 275>>, <<480, 275>>, <<360, 365>>, <<480, 365>>}

InitMouse ==
    /\ zoom = SelInit.zoom
    /\ position = SelInit.position
    /\ nan = {}
    /\ aspect_ratio \in AspectRatios
    /\ wallpaper_size = MouseWallpaper
    /\ monitors = TwoMonitors
    /\ canvas_size = MappedCanvas
    /\ canvas_wallpaper_size = LetterBox(MappedCanvas, MouseWallpaper)
    /\ canvas_wallpaper_position2 =
           <<MappedCanvas[1] - LetterBox(MappedCanvas, MouseWallpaper)[1],
             MappedCanvas[2] - LetterBox(MappedCanvas, MouseWallpaper)[2]>>
    /\ redraw_scheduled = FALSE
    /\ resize_scheduled = FALSE
    /\ show_monitor_labels = FALSE
    /\ show_unselected_area = TRUE
    /\ timers = 0
    /\ drawn = DrawMonitors(TwoMonitors, SelInit.zoom)
    /\ dirty = FALSE
    /\ mouse_moving = FALSE
    /\ mouse_zooming = FALSE
    /\ mouse_zooming_anchor = <<FALSE, FALSE>>
    /\ mouse_last_coords = <<0, 0>>
    /\ window = WindowInit(TwoMonitors, MouseWallpaper)
    /\ calls = 0
    /\ last = [NoEvent EXCEPT
                   !.op = "redraw",
                   !.geom = <<MappedCanvas, LetterBox(MappedCanvas, MouseWallpaper), <<0, 0>>>>,
                   !.sched = [redraw_scheduled |-> TRUE, timers |-> 1],
                   !.resize = TRUE,
                   !.run = 1]

NextMouse ==
    \/ \E pt \in Pointers : StartMouseMoving(pt)
    \/ StopMouseMoving
    \/ \E pt \in Pointers : StartMouseZooming(pt)
    \/ StopMouseZooming
    \/ \E pt \in Pointers : HandleMouseMotion(pt)
    \/ \E c \in {<<40, 100>>, <<1, 1>>} : ScheduleResize(c)
    \/ Redraw

SpecMouse == InitMouse /\ [][NextMouse]_vars

---------------------------------------------------------------------------
(* SpecCaller: a caller that constructs the Selection with arguments of    *)
(* its own, hands it to the widget, and keeps the arrays it passes         *)

NewZooms == {ZOOM_DEFAULT, One \div 2}

NewPositions ==
    {PositionArg("none", <<>>)}
    \cup {PositionArg(k, p) : k \in {"ndarray", "tuple"},
                              p \in {<<0, 0>>, <<Step, 2 * Step>>, <<One, One>>}}

InitCaller ==
    \E z \in NewZooms, p \in NewPositions :
        /\ zoom = SelNew(z, p).zoom
        /\ position = SelNew(z, p).position
        /\ nan = {}
        /\ aspect_ratio \in AspectRatios
        /\ wallpaper_size = <<1125, 250>>
        /\ monitors = TwoMonitors
        /\ canvas_size = <<1, 1>>
        /\ canvas_wallpaper_size = <<1, 1>>
        /\ canvas_wallpaper_position2 = <<0, 0>>
        /\ redraw_scheduled = FALSE
        /\ resize_scheduled = FALSE
        /\ show_monitor_labels = FALSE
        /\ show_unselected_area = TRUE
        /\ timers = 0
        /\ drawn = <<>>
        /\ dirty = FALSE
        /\ mouse_moving = FALSE
        /\ mouse_zooming = FALSE
        /\ mouse_zooming_anchor = <<FALSE, FALSE>>
        /\ mouse_last_coords = <<0, 0>>
        /\ window = WindowInit(TwoMonitors, <<1125, 250>>)
        /\ calls = 0
        /\ last = [NoEvent EXCEPT
                       !.op = IF SelNew(z, p).raised THEN "init_raised" ELSE "init",
                       !.args = <<z, p>>,
                       !.pre = <<zoom, position>>]

\* the construction returned a Selection
Constructed == last.op # "init_raised"

\* the calls of a caller that holds a Selection
NextCaller ==
    \/ \E d \in MoveDeltas, i \in BOOLEAN : Constructed /\ MoveDelta(d, i)
    \/ Constructed /\ MoveDeltaAgain
    \/ \E p \in Positions : Constructed /\ SetPosition(p)
    \/ \E d \in {-Step, Step}, a \in {"center", "se"} : Constructed /\ ZoomDelta(d, a)

SpecCaller == InitCaller /\ [][NextCaller]_vars

---------------------------------------------------------------------------
(* The claims *)

MutatingCalls ==
    {"set_position", "move_delta", "set_zoom", "zoom_delta", "move_left",
     "move_right", "move_up", "move_down", "zoom_increase", "zoom_decrease"}

\* the clamp invariant of the Selection
Clamped ==
    /\ ZOOM_MIN <= zoom /\ zoom <= One
    /\ 0 <= position[1] /\ position[1] <= One - zoom
    /\ 0 <= position[2] /\ position[2] <= One - zoom

\* _onchange found the state in range: the last call triggered no clamping
NoClamping == last.raw = <<zoom, position>>

\* C1: after every move_delta (move_by) and zoom_delta (zoom_by) call, whatever
\* the deltas and the anchor, zoom_min <= zoom <= 1 and 0 <= position <= 1 - zoom
\* on both axes.
C1_ClampInvariant ==
    last.op \in {"move_delta", "zoom_delta"} => Clamped

\* C1 witness: a zoom_delta that overshot the zoom floor and pushed the position
\* past the wallpaper's edge, clamped to zoom_min and 1 - zoom_min
C1_Witness ==
    /\ last.op = "zoom_delta"
    /\ last.raw[1] < ZOOM_MIN
    /\ last.raw[2][1] > One
    /\ zoom = ZOOM_MIN
    /\ position[1] = One - ZOOM_MIN

C3_AspectCompensation ==
    last.op = "move_delta" =>
        LET d == last.args[1]
            before == last.pre[2]
            after == last.raw[2]
        IN  /\ after[1] = before[1] + d[1]
            /\ after[2] = before[2] + (IF last.args[2] THEN d[2] ELSE d[2] * aspect_ratio)

\* C3 witness: a move_delta along both axes, aspect ratio 2, not ignored
C3_Witness ==
    /\ last.op = "move_delta"
    /\ ~last.args[2]
    /\ aspect_ratio = 2
    /\ last.args[1][1] # 0
    /\ last.args[1][2] # 0
    /\ last.raw[2][2] = last.pre[2][2] + 2 * last.args[1][2]

\* C5: zoom_delta(-10.0), from any state and with any anchor, ends with
\* zoom = zoom_min, also when zoom was zoom_min already; no call ends with
\* zoom below zoom_min.
C5_ZoomFloor ==
    /\ (last.op = "zoom_delta" /\ last.args[1] = -Far) => zoom = ZOOM_MIN
    /\ last.op \in MutatingCalls => zoom >= ZOOM_MIN

\* C5 witness: a second zoom_delta(-10.0), called at zoom_min
C5_Witness ==
    /\ last.op = "zoom_delta"
    /\ last.args[1] = -Far
    /\ last.run >= 2
    /\ last.pre[1] = ZOOM_MIN
    /\ zoom = ZOOM_MIN

\* 0 <= p <= 1 - z on both axes
InRange(p, z) ==
    /\ 0 <= p[1] /\ p[1] <= One - z
    /\ 0 <= p[2] /\ p[2] <= One - z

\* C6: a second set_position(p) with the same in-range p leaves position and
\* zoom as the first left them, and every set_position calls the change
\* handlers, the repeated one too.
C6_SetPositionIdempotent ==
    last.op = "set_position" =>
        /\ Len(last.seen) = 1
        /\ (last.run >= 2 /\ InRange(last.args[1], last.pre[1])) =>
               <<zoom, position>> = last.pre

\* C6 witness: set_position(p) called twice in a row with an in-range p that
\* is not the default position
C6_Witness ==
    /\ last.op = "set_position"
    /\ last.run = 2
    /\ InRange(last.args[1], last.pre[1])
    /\ last.args[1] # SelInit.position
    /\ position = last.args[1]
    /\ Len(last.seen) = 1

\* C7: every mutating call on the Selection calls the change handlers exactly
\* once before it returns (the widget's handler has then run: a redraw is
\* scheduled), the calls that delegate to other calls included.
C7_NotifiedOnce ==
    last.op \in MutatingCalls =>
        /\ Len(last.seen) = 1
        /\ redraw_scheduled

\* C7 witness: a set_zoom, which delegates to zoom_delta and move_delta
C7_Witness ==
    /\ last.op = "set_zoom"
    /\ Len(last.seen) = 1
    /\ last.seen[1] = <<zoom, position>>

\* a == b as fractions an / ad and bn / bd
RatEq(an, ad, bn, bd) == ad # 0 /\ bd # 0 /\ an * bd = bn * ad

\* C4: the rectangle drawn for every monitor has, per axis, the position
\* (monitor.position - min) * zoom / (max - min) and the size
\* monitor.size * zoom / (max - min), for every workstation.
C4_FootprintFormula ==
    last.op = "redraw" =>
        \A i \in 1 .. Len(monitors) : \A k \in 1 .. 2 :
            LET cmin == CoordMin(monitors)
                cmax == CoordMax(monitors)
            IN  /\ i \in DOMAIN drawn
                /\ RatEq(drawn[i].pos[k], drawn[i].den[k],
                         (monitors[i].position[k] - cmin[k]) * zoom, cmax[k] - cmin[k])
                /\ RatEq(drawn[i].size[k], drawn[i].den[k],
                         monitors[i].size[k] * zoom, cmax[k] - cmin[k])

\* C8 as claimed: _schedule_resize with a canvas width or height of 0 or 1
\* schedules nothing and leaves canvas_size, the wallpaper's display size and
\* its offset as they were.
C8_DegenerateResizeSkipped ==
    (last.op = "schedule_resize" /\ Degenerate(last.args)) =>
        /\ Geom = last.geom
        /\ Sched = last.sched
        /\ resize_scheduled = last.resize

\* C9: at most one redraw callback is pending at any time, and
\* _redraw_scheduled is true exactly while one is.
C9_AtMostOneRedrawPending ==
    /\ timers <= 1
    /\ redraw_scheduled <=> timers = 1

\* C10: after a mutating call on the Selection a redraw is scheduled and its
\* callback is outstanding, so that a redraw runs after the mutation; a
\* mutation is not left undrawn because a redraw was scheduled already.
C10_MutationIsRedrawn ==
    dirty => (redraw_scheduled /\ timers >= 1)

\* C11 as claimed: no SelectionWidget and no Window exists for a workstation
\* with an empty monitor list: deriving the bounds fails in both.
C11_EmptyWorkstationRejected ==
    /\ monitors # <<>>
    /\ window.monitors = <<>> => window.raised

\* the list ms in the order f
Reordered(ms, f) == [i \in 1 .. Len(ms) |-> ms[f[i]]]

\* C12: for a non-empty monitor list the bounds enclose every monitor
\* (min <= position and position + size <= max per axis), min is the least
\* position and max the greatest position + size per axis, and the bounds do
\* not depend on the order of the monitors; the Window derives the same.
C12_BoundsEncloseMonitors ==
    monitors # <<>> =>
        LET cmin == CoordMin(monitors)
            cmax == CoordMax(monitors)
            n == Len(monitors)
        IN  /\ \A i \in 1 .. n : \A k \in 1 .. 2 :
                   /\ cmin[k] <= monitors[i].position[k]
                   /\ monitors[i].position[k] + monitors[i].size[k] <= cmax[k]
            /\ \A k \in 1 .. 2 :
                   /\ \E i \in 1 .. n : cmin[k] = monitors[i].position[k]
                   /\ \E i \in 1 .. n : cmax[k] = monitors[i].position[k] + monitors[i].size[k]
            /\ \A f \in Permutations(1 .. n) :
                   /\ CoordMin(Reordered(monitors, f)) = cmin
                   /\ CoordMax(Reordered(monitors, f)) = cmax
            /\ window.mon_coord_min = cmin
            /\ window.mon_coord_max = cmax
            /\ last.op = "redraw" => \A i \in 1 .. n : drawn[i].den = cmax

\* C12 witness: a drawn workstation of three monitors whose least position is
\* not the first monitor's and whose greatest corner is not the last one's
C12_Witness ==
    /\ Len(monitors) = 3
    /\ last.op = "redraw"
    /\ CoordMin(monitors) # monitors[1].position
    /\ CoordMax(monitors) # Add2(monitors[3].position, monitors[3].size)
    /\ CoordMin(monitors)[1] < 0
    /\ drawn[1].den = CoordMax(monitors)

\* C13: a Selection constructed with the default arguments has zoom 0.75 and
\* position (0.125, 0.125), centred, and satisfies the clamp invariant before
\* any call.
C13_DefaultCentred ==
    last.op = "init" =>
        /\ 4 * zoom = 3 * One
        /\ position = <<One \div 8, One \div 8>>
        /\ 2 * position[1] + zoom = One
        /\ 2 * position[2] + zoom = One
        /\ Clamped

\* C13 witness: the constructed Selection, before any call
C13_Witness ==
    /\ last.op = "init"
    /\ calls = 0
    /\ zoom = ZOOM_DEFAULT
    /\ position = SelInit.position

\* C14: after every mutating call zoom = clip(unclamped zoom, zoom_min, 1) and
\* position = clip(unclamped position, 0, 1 - zoom) with the clamped zoom; a
\* zoom_delta that pushes the zoom above 1 ends with zoom 1 and position (0, 0).
C14_ZoomClampedFirst ==
    last.op \in MutatingCalls =>
        /\ zoom = Clip(last.raw[1], ZOOM_MIN, One)
        /\ position = Clip2(last.raw[2], 0, One - zoom)
        /\ last.op = "zoom_delta" =>
               /\ last.raw[1] = last.pre[1] + last.args[1]
               /\ last.raw[1] > One => (zoom = One /\ position = <<0, 0>>)

\* C14 witness: a zoom_delta that pushed the zoom above 1 from a position
\* that was not the origin
C14_Witness ==
    /\ last.op = "zoom_delta"
    /\ last.raw[1] > One
    /\ last.raw[2] # <<0, 0>>
    /\ zoom = One
    /\ position = <<0, 0>>

\* C15 as claimed: set_zoom(z, anchor) gives the state zoom_delta(z - zoom,
\* anchor) gives, its zoom is clip(z, zoom_min, 1), and a second set_zoom with
\* the same z and anchor leaves zoom and position unchanged.
C15_SetZoomIdempotent ==
    last.op = "set_zoom" =>
        LET s == SelZoomDelta(Sel(last.pre[1], last.pre[2]), aspect_ratio,
                              last.args[1] - last.pre[1], last.args[2])
        IN  /\ <<zoom, position>> = <<s.zoom, s.position>>
            /\ zoom = Clip(last.args[1], ZOOM_MIN, One)
            /\ last.run >= 2 => <<zoom, position>> = last.pre

\* C17: zoom_delta with anchor "center" shifts the position by -delta / 2 on
\* both axes whatever the aspect ratio, and when no clamping is triggered the
\* centre position + zoom / 2 is the same before and after.
C17_CenterZoomKeepsCentre ==
    (last.op = "zoom_delta" /\ last.args[2] = "center") =>
        \A k \in 1 .. 2 :
            /\ 2 * last.raw[2][k] = 2 * last.pre[2][k] - last.args[1]
            /\ NoClamping => 2 * position[k] + zoom = 2 * last.pre[2][k] + last.pre[1]

\* C17 witness: an unclamped zoom_delta about the centre on a Selection of
\* aspect ratio 2
C17_Witness ==
    /\ last.op = "zoom_delta"
    /\ last.args[2] = "center"
    /\ aspect_ratio = 2
    /\ NoClamping
    /\ zoom # last.pre[1]
    /\ position[2] # last.pre[2][2]

\* the entries that are numbers
NumericTexts == {"0.25", "0.5", "2", "-1"}

\* the component of the Window's selection a text field commits to
Component(w, op) ==
    CASE op = "sel_set_pos_x" -> w.sel_pos[1]
      [] op = "sel_set_pos_y" -> w.sel_pos[2]
      [] op = "sel_set_zoom_factor" -> w.sel_zoom_factor

\* the text field of a commit
Field(w, op) ==
    CASE op = "sel_set_pos_x" -> w.spinbox.x
      [] op = "sel_set_pos_y" -> w.spinbox.y
      [] op = "sel_set_zoom_factor" -> w.spinbox.zoom

\* C16: committing an entry that is not a number in the X, Y or zoom field
\* changes neither position nor zoom, schedules no redraw and makes the field
\* show the current value; committing a number sets that component, leaves the
\* other two and schedules a redraw.
C16_InvalidEntryRejected ==
    (~window.raised /\ window.last.op \in {"sel_set_pos_x", "sel_set_pos_y",
                                            "sel_set_zoom_factor"}) =>
        LET op == window.last.op
            text == window.last.text
            pre == window.last.pre
        IN  IF text \in NumericTexts
            THEN /\ Component(window, op) = FloatOf(text).value
                 /\ op # "sel_set_pos_x" => window.sel_pos[1] = pre.sel_pos[1]
                 /\ op # "sel_set_pos_y" => window.sel_pos[2] = pre.sel_pos[2]
                 /\ op # "sel_set_zoom_factor" =>
                        window.sel_zoom_factor = pre.sel_zoom_factor
                 /\ window.redraw_scheduled
                 /\ window.timers = 1
            ELSE /\ window.sel_pos = pre.sel_pos
                 /\ window.sel_zoom_factor = pre.sel_zoom_factor
                 /\ window.redraw_scheduled = pre.redraw_scheduled
                 /\ window.timers = pre.timers
                 /\ "shown" \in DOMAIN Field(window, op)
                 /\ Field(window, op).shown = Component(window, op)

\* C16 witness: "abc" committed in the X field after the position was moved
\* and redrawn: nothing is scheduled and the field shows the position again
C16_Witness ==
    /\ ~window.raised
    /\ window.last.op = "sel_set_pos_x"
    /\ window.last.text = "abc"
    /\ window.sel_pos[1] # (One - SEL_ZOOM_DEFAULT) \div 2
    /\ ~window.redraw_scheduled
    /\ window.timers = 0
    /\ window.spinbox.x = Shown(window.sel_pos[1], "str")

\* the corner named by (east, south)
Corner(east, south) ==
    IF south THEN (IF east THEN "se" ELSE "sw") ELSE (IF east THEN "ne" ELSE "nw")

\* C18: a button-3 press chooses the anchor per axis by comparing the pointer
\* with (position + zoom / 2) * wallpaper size + wallpaper position on the
\* canvas: greater is east (south), otherwise west (north).  Every motion of
\* the drag passes that anchor, one of nw, ne, sw, se, and nothing but a press
\* changes it.
C18_AnchorChosenAtPress ==
    /\ last.op = "start_mouse_zooming" =>
           /\ mouse_zooming
           /\ \A k \in 1 .. 2 :
                  mouse_zooming_anchor[k] <=>
                      /\ last.nan \cap {"zoom", IF k = 1 THEN "x" ELSE "y"} = {}
                      /\ 2 * One * last.args.pt[k] >
                             (2 * last.pre[2][k] + last.pre[1]) * last.geom[2][k]
                             + One * last.geom[3][k]
    /\ (last.op = "motion" /\ last.mouse.zooming) =>
           /\ last.args.zoom[1] = "zoom_delta"
           /\ last.args.zoom[3] = Corner(last.mouse.anchor[1], last.mouse.anchor[2])
           /\ last.args.zoom[3] \in {"nw", "ne", "sw", "se"}
    /\ last.op # "start_mouse_zooming" => mouse_zooming_anchor = last.mouse.anchor

\* C18 witness: a later motion of a zoom drag that began south-east of the
\* centre; the selection has changed, the pointer was no longer east of its
\* centre, and the anchor passed is still "se"
C18_Witness ==
    /\ last.op = "motion"
    /\ last.mouse.zooming
    /\ ~last.mouse.moving
    /\ last.nan = {}
    /\ last.pre # <<SelInit.zoom, SelInit.position>>
    /\ last.args.zoom[3] = "se"
    /\ 2 * One * last.mouse.last_coords[1] <=
           (2 * last.pre[2][1] + last.pre[1]) * last.geom[2][1] + One * last.geom[3][1]
    /\ <<zoom, position>> # last.pre

\* C19 as claimed: a motion of a zoom drag calls zoom_delta with the magnitude
\* |pointer - previous pointer| / |wallpaper display size|, negative (zoom in)
\* when the pointer came closer to the far corner diagonally opposite the
\* anchor and positive (zoom out) when it went farther; a motion to the same
\* point changes neither zoom nor position.
C19_ZoomDragDelta ==
    (last.op = "motion" /\ last.mouse.zooming /\ ~last.mouse.moving) =>
        LET p == last.mouse.last_coords
            q == last.args.pt
            delta == last.args.zoom[2]
            opposite == <<~last.mouse.anchor[1], ~last.mouse.anchor[2]>>
        IN  /\ last.args.zoom[1] = "zoom_delta"
            /\ Abs(delta) * Norm(last.geom[2]) = Norm(<<q[1] - p[1], q[2] - p[2]>>) * One
            /\ FartherFromCorner(opposite, q, p) => delta < 0
            /\ FartherFromCorner(opposite, p, q) => delta > 0
            /\ last.raw[1] = last.pre[1] + delta
            /\ p = q => (<<zoom, position>> = last.pre /\ nan = last.nan)

\* C20 as claimed: a motion of a pan drag moves the position, before clamping,
\* by (pointer - previous pointer) / wallpaper display size per axis with no
\* aspect-ratio scaling, then clamps; the zoom is unchanged, and the next
\* motion is measured from this pointer.
C20_PanDragDelta ==
    (last.op = "motion" /\ last.mouse.moving /\ ~last.mouse.zooming) =>
        LET p == last.mouse.last_coords
            q == last.args.pt
        IN  /\ last.args.pan[1] = "move_delta"
            /\ \A k \in 1 .. 2 :
                   (last.raw[2][k] - last.pre[2][k]) * last.geom[2][k] = (q[k] - p[k]) * One
            /\ zoom = last.pre[1]
            /\ position = Clip2(last.raw[2], 0, One - zoom)
            /\ nan = last.nan
            /\ mouse_last_coords = q

\* t = int(n / d) for d > 0: the integer next to n / d on the side of zero
IsTruncation(t, n, d) ==
    IF n >= 0 THEN t >= 0 /\ t * d <= n /\ n < (t + 1) * d
    ELSE t <= 0 /\ t * d >= n /\ n > (t - 1) * d

\* C21: after every _schedule_resize that passed the degenerate guard, the
\* wallpaper's display size is at most the canvas size less twice the padding on
\* both axes, equals it on at least one axis, and on the other axis is the
\* truncation of what the wallpaper's aspect ratio gives.
C21_LetterBoxFits ==
    (last.op = "schedule_resize" /\ ~Degenerate(last.args)) =>
        LET avail == <<canvas_size[1] - 2 * PADDING, canvas_size[2] - 2 * PADDING>>
            d == canvas_wallpaper_size
            wp == wallpaper_size
        IN  /\ d[1] <= avail[1]
            /\ d[2] <= avail[2]
            /\ \/ d[1] = avail[1] /\ IsTruncation(d[2], d[1] * wp[2], wp[1])
               \/ d[2] = avail[2] /\ IsTruncation(d[1], d[2] * wp[1], wp[2])

\* C21 witness: a 4:3 wallpaper on an 800x600 canvas is bound by the height:
\* 560 high and int(746.67) = 746 wide
C21_Witness ==
    /\ last.op = "schedule_resize"
    /\ last.args = <<800, 600>>
    /\ wallpaper_size = <<4, 3>>
    /\ canvas_wallpaper_size = <<746, 560>>

\* C22 as claimed: every _schedule_resize that passed the guard sets
\* _resize_scheduled and schedules a redraw; the next _redraw runs
\* _resize_images once, for the canvas size of the latest resize, then draws
\* the monitors and clears the flag, however many resizes came before it.
C22_ResizeRedrawnOnce ==
    /\ (last.op = "schedule_resize" /\ ~Degenerate(last.args)) =>
           /\ resize_scheduled
           /\ redraw_scheduled
           /\ timers = 1
    /\ (last.op \in {"redraw", "redraw_raised"} /\ last.resize) =>
           /\ last.op = "redraw"
           /\ ~resize_scheduled
           /\ canvas_wallpaper_position2 =
                  <<canvas_size[1] - canvas_wallpaper_size[1],
                    canvas_size[2] - canvas_wallpaper_size[2]>>
           /\ Len(drawn) = Len(monitors)

\* C23: move_left and move_right change, before clamping, only position x, by
\* -step and +step; move_up and move_down only position y, by -step and +step
\* times the aspect ratio; none changes zoom; zoom_increase and zoom_decrease
\* change zoom, before clamping, by +step and -step.  The step is 0.01, or
\* 0.001 with precise: one tenth.
C23_FixedSteps ==
    LET step == IF last.args[1] THEN One \div 1000 ELSE One \div 100
        moved ==
            CASE last.op = "move_left" -> <<-step, 0>>
              [] last.op = "move_right" -> <<step, 0>>
              [] last.op = "move_up" -> <<0, -step * aspect_ratio>>
              [] OTHER -> <<0, step * aspect_ratio>>
    IN  /\ last.op \in {"move_left", "move_right", "move_up", "move_down"} =>
               /\ last.raw = <<last.pre[1], Add2(last.pre[2], moved)>>
               /\ zoom = last.pre[1]
        /\ last.op = "zoom_increase" => last.raw[1] = last.pre[1] + step
        /\ last.op = "zoom_decrease" => last.raw[1] = last.pre[1] - step
        /\ 10 * (One \div 1000) = One \div 100

\* C23 witness: a normal move_up at aspect ratio 2 that moved y by -0.02 and
\* was not clamped, and nothing else
C23_Witness ==
    /\ last.op = "move_up"
    /\ ~last.args[1]
    /\ aspect_ratio = 2
    /\ NoClamping
    /\ position = <<last.pre[2][1], last.pre[2][2] - 2 * (One \div 100)>>
    /\ zoom = last.pre[1]

\* C24 as claimed: a Selection constructed with a position argument starts at
\* that position, the centred default is used only when none is given, and the
\* construction succeeds for every position of two components.
C24_ExplicitPositionKept ==
    last.op \in {"init", "init_raised"} =>
        LET z == last.args[1]
            p == last.args[2]
        IN  /\ last.op = "init"
            /\ p.kind # "none" => position = p.value
            /\ p.kind = "none" => position = <<(One - z) \div 2, (One - z) \div 2>>

\* C25: every state a change handler was called in satisfies the clamp
\* invariant, zoom in [zoom_min, 1] and position in [0, 1 - zoom]: the clamping
\* comes before the handlers, and zoom_delta calls none between its change of
\* zoom and its shift of position.
C25_HandlersSeeClamped ==
    \A i \in 1 .. Len(last.seen) :
        LET z == last.seen[i][1]
            p == last.seen[i][2]
        IN  /\ ZOOM_MIN <= z
            /\ z <= One
            /\ InRange(p, z)

\* C25 witness: a zoom_delta whose unclamped zoom fell below zoom_min and whose
\* shifted position left the wallpaper; the handlers were called once, in the
\* clamped state
C25_Witness ==
    /\ last.op = "zoom_delta"
    /\ last.raw[1] < ZOOM_MIN
    /\ last.raw[2][1] > One
    /\ last.seen = << <<ZOOM_MIN, <<One - ZOOM_MIN, One - ZOOM_MIN>> >> >>

\* C26 as claimed: in every state of the widget with no redraw pending, twice
\* the wallpaper's offset is the canvas size less the wallpaper's display size,
\* after any sequence of resizes, degenerate ones included, and redraws.
C26_GeometryConsistent ==
    (~redraw_scheduled /\ timers = 0) =>
        canvas_wallpaper_position2 =
            <<canvas_size[1] - canvas_wallpaper_size[1],
              canvas_size[2] - canvas_wallpaper_size[2]>>

\* C27 as claimed: in every state of the widget both components of the
\* wallpaper's display size are above zero, also after a resize to a canvas the
\* guard accepts that is not larger than twice the padding, so a pointer motion
\* during a drag never divides by a size of zero or below.
C27_DisplaySizePositive ==
    /\ canvas_wallpaper_size[1] > 0
    /\ canvas_wallpaper_size[2] > 0
    /\ (last.op = "motion" /\ (last.mouse.moving \/ last.mouse.zooming)) =>
           /\ last.geom[2][1] > 0
           /\ last.geom[2][2] > 0
           /\ nan = {}

\* C28: a pointer motion while neither button 1 nor button 3 is held changes
\* neither position nor zoom, calls no change handler and schedules no redraw:
\* it only stores the pointer's coordinates.  _mouse_moving is true exactly
\* from a button-1 press to the next button-1 release, _mouse_zooming from a
\* button-3 press to the next button-3 release.
C28_IdleMotionInert ==
    /\ (last.op = "motion" /\ ~last.mouse.moving /\ ~last.mouse.zooming) =>
           /\ <<zoom, position>> = last.pre
           /\ nan = last.nan
           /\ Len(last.seen) = 0
           /\ Sched = last.sched
           /\ Geom = last.geom
           /\ resize_scheduled = last.resize
           /\ Mouse = [last.mouse EXCEPT !.last_coords = last.args.pt]
    /\ mouse_moving =
           CASE last.op = "start_mouse_moving" -> TRUE
             [] last.op = "stop_mouse_moving" -> FALSE
             [] OTHER -> last.mouse.moving
    /\ mouse_zooming =
           CASE last.op = "start_mouse_zooming" -> TRUE
             [] last.op = "stop_mouse_zooming" -> FALSE
             [] OTHER -> last.mouse.zooming

\* C28 witness: the third pointer event is a motion to another point with no
\* button held, and the selection is still the initial one
C28_Witness ==
    /\ last.op = "motion"
    /\ ~last.mouse.moving
    /\ ~last.mouse.zooming
    /\ calls = 3
    /\ last.mouse.last_coords # <<0, 0>>
    /\ last.args.pt # last.mouse.last_coords
    /\ mouse_last_coords = last.args.pt
    /\ <<zoom, position>> = <<SelInit.zoom, SelInit.position>>

\* C29 as claimed: when move_delta returns, the caller's delta array holds the
\* components it held before the call, for every aspect ratio and both values
\* of ignore_aspect_ratio; a second move_delta with the same array therefore
\* moves the position, before clamping, as the first did.
C29_DeltaIsValue ==
    last.op = "move_delta" =>
        LET origin == last.args[4]
            moved == <<origin[1],
                       IF last.args[2] THEN origin[2] ELSE origin[2] * aspect_ratio>>
        IN  /\ last.args[3] = last.args[1]
            /\ last.raw[2] = Add2(last.pre[2], moved)

\* C30 as claimed: for every workstation of at least one monitor, wherever its
\* monitors lie, and every zoom, each rectangle a redraw draws lies within the
\* selection, from 0 to zoom relative to position on both axes, and on each
\* axis some rectangle starts at 0 and some rectangle ends at zoom.
C30_FootprintsFillSelection ==
    (last.op = "redraw" /\ monitors # <<>>) =>
        \A k \in 1 .. 2 :
            /\ \A i \in 1 .. Len(monitors) :
                   /\ drawn[i].den[k] > 0
                   /\ 0 <= drawn[i].pos[k]
                   /\ drawn[i].pos[k] + drawn[i].size[k] <= zoom * drawn[i].den[k]
            /\ \E i \in 1 .. Len(monitors) : drawn[i].pos[k] = 0
            /\ \E i \in 1 .. Len(monitors) :
                   drawn[i].pos[k] + drawn[i].size[k] = zoom * drawn[i].den[k]

====
